---- MODULE Spec2Model ----
(***************************************************************************)
(* The two agent nodes of the repository as state machines:                *)
(*   extract_node   (coagents-ai-researcher, ai_researcher/extract.py)     *)
(*   translate_node (coagents-shared-state,  my_agent/agent.py)            *)
(* Python dicts are functions whose DOMAIN is the set of keys present.     *)
(* Text is a tuple of one-character strings, so that lower() and strip()   *)
(* are computed; log lines and enumerated tags are plain strings.          *)
(* `agent` is the example agent the process hosts: each of the two graphs  *)
(* runs in a process of its own and only its node is ever invoked there.   *)
(* Each node is one action: the model's answer to its single awaited call  *)
(* is an input of the action.  `last` records the invocation just made     *)
(* (the state handed in, what was sent, how the invocation ended).         *)
(***************************************************************************)
EXTENDS Integers, Sequences, FiniteSets, TLC

VARIABLES agent, steps, messages, translations, input, env, last

vars == <<agent, steps, messages, translations, input, env, last>>

\* ---------------------------------------------------------------- bounds
MaxSteps == 3
MaxMsgs == 2

\* ------------------------------------------------------- python helpers
\* Python's None where a text or a list may stand.
None == <<"None">>

\* Python's None where a dict may stand (state.translations).
NoneDict == [none |-> TRUE]

\* d.get(k, default)
Get(d, k, default) == IF k \in DOMAIN d THEN d[k] ELSE default

\* d.update(u)
Update(d, u) ==
  [k \in DOMAIN d \cup DOMAIN u |-> IF k \in DOMAIN u THEN u[k] ELSE d[k]]

Min(S) == CHOOSE x \in S : \A y \in S : x <= y

Max(S) == CHOOSE x \in S : \A y \in S : x >= y

\* ===================================================== step summarizer
PendingIdx(ss) == {i \in 1..Len(ss) : ss[i].status = "pending"}

\* A plausible slip: the generator picks the last pending step.
FirstPendingLast(ss) == IF PendingIdx(ss) = {} THEN 0 ELSE Max(PendingIdx(ss))

\* next((step for step in state["steps"] if step["status"] == "pending"), None)
\* as an index into the list, 0 for None.
FirstPending(ss) == IF PendingIdx(ss) = {} THEN 0 ELSE Min(PendingIdx(ss))

\* A plausible slip: the type test is dropped.
IsSearchAny(step) == TRUE

\* not (current_step.get("type") != "search")
IsSearch(step) == "type" \in DOMAIN step /\ step.type = "search"

NoPendingError == "ValueError: No pending search step found"
NotSearchError == "ValueError: The current step is not a search step"
IndexError == "IndexError: list index out of range"
ModelError == "model call failed"
Ok == "ok"

\* current_step.update({...}) of lines 45-50
CompleteStep(step, content) ==
  Update(step, [result |-> content,
                search_result |-> None,
                status |-> "complete",
                updates |-> Get(step, "updates", <<>>) \o <<"Done.">>])

\* lines 53-55: the next pending step's log is set to the one marker
MarkNext(ss) ==
  LET j == FirstPending(ss)
  IN  IF j = 0 THEN ss
      ELSE [ss EXCEPT ![j] = Update(@, [updates |-> <<"Searching the web...">>])]

\* lines 44-57: what the node does with the model's response
ApplyResponse(st, i, resp) ==
  [state |-> [st EXCEPT !.steps =
                 MarkNext([st.steps EXCEPT ![i] = CompleteStep(@, resp.content)])],
   outcome |-> Ok, calls |-> 1]

\* A plausible slip: the step is marked before the model is awaited, so a
\* failed call leaves a half-written step behind.
ModelFailedPartial(st, i) ==
  [state |-> [st EXCEPT !.steps[i] = Update(@, [status |-> "complete"])],
   outcome |-> ModelError, calls |-> 1]

\* lines 39-42: the awaited call raises; nothing has been written yet
ModelFailed(st, i) == [state |-> st, outcome |-> ModelError, calls |-> 1]

\* extract_node(state, config), with the model's answer `resp` as input.
\* Returns the state after the invocation, how it ended and the number of
\* model calls made.
extract_node(st, resp) ==
  LET i == FirstPending(st.steps)
  IN  IF i = 0
        THEN [state |-> st, outcome |-> NoPendingError, calls |-> 0]
      ELSE IF ~IsSearch(st.steps[i])
        THEN [state |-> st, outcome |-> NotSearchError, calls |-> 0]
      ELSE IF st.messages = <<>>
        THEN [state |-> st, outcome |-> IndexError, calls |-> 0]
      ELSE IF resp.kind = "fail"
        THEN ModelFailed(st, i)
      ELSE ApplyResponse(st, i, resp)

\* ---- inputs of the summarizer
\* Steps as the engine may hand them in.
PendingSteps ==
  {[id |-> "s", status |-> "pending"],
   [id |-> "s", type |-> "search", status |-> "pending"],
   [id |-> "s", type |-> "search", status |-> "pending", updates |-> <<>>],
   [id |-> "s", type |-> "search", status |-> "pending", updates |-> <<"queued">>,
    search_result |-> <<"r">>],
   [id |-> "s", type |-> "answer", status |-> "pending", updates |-> <<"queued">>]}

OtherSteps ==
  {[id |-> "s", type |-> "search", status |-> "in_progress", updates |-> <<"queued">>],
   [id |-> "s", type |-> "search", status |-> "complete", result |-> <<"o","l","d">>,
    search_result |-> None, updates |-> <<"queued", "Done.">>]}

StepValues == PendingSteps \cup OtherSteps

StepLists == UNION {[1..n -> StepValues] : n \in 0..MaxSteps}

\* The first message of the researcher's conversation (state["messages"][0]).
Question == [role |-> "human", content |-> <<"q">>]

\* What the awaited model call may produce: a response with some content
\* (the empty text included), or a failure.
SummaryResponses ==
  {[kind |-> "ok", content |-> <<"s","u","m">>],
   [kind |-> "ok", content |-> <<>>],
   [kind |-> "fail"]}

\* ========================================================== translator
\* ---- text
Whitespace == {" ", "\t", "\n"}

\* str.lower() on one character (the letters the inputs use)
LowerChar(c) ==
  CASE c = "A" -> "a" [] c = "C" -> "c" [] c = "E" -> "e" [] c = "H" -> "h"
    [] c = "I" -> "i" [] c = "N" -> "n" [] c = "O" -> "o" [] c = "P" -> "p"
    [] c = "R" -> "r" [] c = "T" -> "t" [] c = "U" -> "u" [] c = "Z" -> "z"
    [] OTHER -> c

\* str.lower()
Lower(s) == [i \in 1..Len(s) |-> LowerChar(s[i])]

RECURSIVE LStrip(_)
LStrip(s) == IF s # <<>> /\ Head(s) \in Whitespace THEN LStrip(Tail(s)) ELSE s

RECURSIVE RStrip(_)
RStrip(s) ==
  IF s # <<>> /\ s[Len(s)] \in Whitespace THEN RStrip(SubSeq(s, 1, Len(s) - 1)) ELSE s

\* str.strip()
Strip(s) == RStrip(LStrip(s))

\* ---- model selection
DEFAULT_MODEL == <<"o","p","e","n","a","i">>
OPENAI_MODEL == "gpt-4o"
ANTHROPIC_MODEL == "claude-3-5-sonnet-20240620"
ConfigError == "ValueError: Invalid model specified"

\* os.getenv("MODEL", DEFAULT_MODEL); env is [set |-> FALSE] when unset
Getenv(e, default) == IF e.set THEN e.value ELSE default

\* A plausible slip: an unknown selector falls back to the default provider.
get_model_fallback(e) == [ok |-> TRUE, class |-> "ChatOpenAI", model |-> OPENAI_MODEL]

\* get_model()
get_model(e) ==
  LET model_choice == Lower(Getenv(e, DEFAULT_MODEL))
  IN  IF model_choice = <<"o","p","e","n","a","i">>
        THEN [ok |-> TRUE, class |-> "ChatOpenAI", model |-> OPENAI_MODEL]
      ELSE IF model_choice = <<"a","n","t","h","r","o","p","i","c">>
        THEN [ok |-> TRUE, class |-> "ChatAnthropic", model |-> ANTHROPIC_MODEL]
      ELSE [ok |-> FALSE, error |-> ConfigError]

\* ---- the translation tool
Fields == {"translation_es", "translation_fr", "translation_de"}

EmptyDict == [k \in {} |-> <<>>]

\* bind_tools' tool_choice values
Forced == "Translations"
Optional == "None"

\* bind_tools not reached
Unbound == "unbound"

AttributeError == "AttributeError: 'dict' object has no attribute 'messages'"

\* A plausible slip: the two branches of the conditional are swapped.
tool_choice_swapped(msgs) ==
  IF msgs # <<>> /\ msgs[Len(msgs)].role = "human" THEN Forced ELSE Optional

\* tool_choice=(None if state.messages and isinstance(state.messages[-1],
\* HumanMessage) else "Translations")
tool_choice(msgs) ==
  IF msgs # <<>> /\ msgs[Len(msgs)].role = "human" THEN Optional ELSE Forced

\* translation_prompt, the fixed text abbreviated to one token per part
translation_prompt(inp) ==
  <<"You are a helpful assistant that translates text ...">>
    \o (IF inp # <<>>
          THEN <<"The user is currently working on translating this text: \"">>
                 \o inp \o <<"\"">>
          ELSE <<>>)

HumanMessage(content) == [role |-> "human", content |-> content]

ToolMessage(content, id) == [role |-> "tool", content |-> content, tool_call_id |-> id]

\* the filter of lines 98-102
Kept(m) == ~(m.role = "system") /\ ~(m.role = "ai" /\ Strip(m.content) = <<>>)

filtered_messages(msgs) == SelectSeq(msgs, Kept)

\* hasattr(response, "tool_calls") and response.tool_calls
HasToolCalls(response) ==
  "tool_calls" \in DOMAIN response /\ response.tool_calls # <<>>

\* A plausible slip: the tool confirmation is appended in both branches.
updated_messages_always_tool(new_message, response) ==
  <<new_message, response, ToolMessage(<<"Translated!">>, "none")>>

\* updated_messages of lines 130 and 133
updated_messages(new_message, response) ==
  IF HasToolCalls(response)
    THEN <<new_message, response,
           ToolMessage(<<"Translated!">>, response.tool_calls[1].id)>>
    ELSE <<new_message, response>>

\* A plausible slip: the input is kept after a translation.
TranslatedKeepInput(st, response) ==
  [st EXCEPT !.translations = Get(response.tool_calls[1], "args", EmptyDict)]

\* lines 119-123: the first tool call's arguments become the translations
\* and the input is cleared
Translated(st, response) ==
  [st EXCEPT !.translations = Get(response.tool_calls[1], "args", EmptyDict),
             !.input = <<>>]

\* lines 116-138: what the node does with the model's response
ProcessResponse(st, new_message, response) ==
  [(IF HasToolCalls(response) THEN Translated(st, response) ELSE st)
     EXCEPT !.messages = updated_messages(new_message, response)]

\* translate_node(state, config), with the environment, the kind of state
\* object and the model's answer `resp` as inputs.  The node reads
\* state.messages, state.translations and state.input as attributes (and
\* state.get("input") as a mapping): `attrs` says whether the object handed
\* in has them.  A plain dict, which an instance of the TypedDict AgentState
\* is, has not, and line 82 then raises AttributeError.
translate_node(st, attrs, e, resp) ==
  LET model == get_model(e)
      choice == tool_choice(st.messages)
      new_message == HumanMessage(translation_prompt(st.input))
      sent == Append(filtered_messages(st.messages), new_message)
  IN  IF ~model.ok
        THEN [state |-> st, outcome |-> model.error, calls |-> 0,
              tool_choice |-> Unbound, sent |-> <<>>, new_message |-> new_message]
      ELSE IF ~attrs
        THEN [state |-> st, outcome |-> AttributeError, calls |-> 0,
              tool_choice |-> Unbound, sent |-> <<>>, new_message |-> new_message]
      ELSE IF resp.kind = "fail"
        THEN [state |-> st, outcome |-> ModelError, calls |-> 1,
              tool_choice |-> choice, sent |-> sent, new_message |-> new_message]
      ELSE [state |-> ProcessResponse(st, new_message, resp.message),
            outcome |-> Ok, calls |-> 1,
            tool_choice |-> choice, sent |-> sent, new_message |-> new_message]

\* ---- inputs of the translator
ArgsFull ==
  [translation_es |-> <<"e","s">>, translation_fr |-> <<"f","r">>,
   translation_de |-> <<"d","e">>]

ArgsPartial == [translation_es |-> <<"e","s">>]

OldTranslations ==
  [translation_es |-> <<"u","n","o">>, translation_fr |-> <<"u","n">>,
   translation_de |-> <<"e","i","n","s">>]

ToolCall(args) == [name |-> "Translations", id |-> "call_1", args |-> args]

ToolCallLists ==
  {<<>>,
   <<ToolCall(ArgsFull)>>,
   <<ToolCall(ArgsPartial)>>,
   <<ToolCall(EmptyDict)>>,
   <<[name |-> "Translations", id |-> "call_1"]>>,
   <<ToolCall(ArgsPartial), ToolCall(ArgsFull)>>}

\* What the awaited model call may produce: an AI message with or without
\* a tool_calls attribute, or a failure.
TranslateResponses ==
  {[kind |-> "ok", message |-> [role |-> "ai", content |-> <<>>, tool_calls |-> tc]] :
     tc \in ToolCallLists}
  \cup {[kind |-> "ok", message |-> [role |-> "ai", content |-> <<"h","i">>]],
        [kind |-> "ok", message |-> [role |-> "ai", content |-> <<"h","i">>,
                                     tool_calls |-> <<ToolCall(ArgsFull)>>]],
        [kind |-> "fail"]}

\* Messages of a conversation as the engine may hand them in.
MessageValues ==
  {[role |-> "human", content |-> <<"h","i">>],
   [role |-> "system", content |-> <<"s">>],
   [role |-> "ai", content |-> <<"o","k">>],
   [role |-> "ai", content |-> <<" ">>],
   [role |-> "tool", content |-> <<"T">>, tool_call_id |-> "call_0"]}

MessageLists == UNION {[1..n -> MessageValues] : n \in 0..MaxMsgs}

EnvValues ==
  {[set |-> FALSE],
   [set |-> TRUE, value |-> <<"O","p","e","n","A","I">>],
   [set |-> TRUE, value |-> <<"a","n","t","h","r","o","p","i","c">>],
   [set |-> TRUE, value |-> <<"a","z","u","r","e">>],
   [set |-> TRUE, value |-> <<>>]}

\* ============================================================= the system
NoCall == [node |-> "none"]

State == [steps |-> steps, messages |-> messages,
          translations |-> translations, input |-> input]

InitResearcher ==
  /\ agent = "ai_researcher"
  /\ steps \in StepLists
  /\ messages \in {<<>>, <<Question>>}
  /\ translations = NoneDict
  /\ input = <<>>
  /\ env = [set |-> FALSE]
  /\ last = NoCall

InitSharedState ==
  /\ agent = "my_agent"
  /\ steps = <<>>
  /\ messages \in MessageLists
  /\ translations \in {NoneDict, OldTranslations}
  /\ input \in {<<>>, <<"c","a","t">>}
  /\ env \in EnvValues
  /\ last = NoCall

Init == InitResearcher \/ InitSharedState

ExtractNode ==
  /\ agent = "ai_researcher"
  /\ \E resp \in SummaryResponses :
       LET r == extract_node(State, resp)
       IN  /\ steps' = r.state.steps
           /\ messages' = r.state.messages
           /\ translations' = r.state.translations
           /\ input' = r.state.input
           /\ last' = [node |-> "extract", pre |-> State, resp |-> resp,
                       outcome |-> r.outcome, calls |-> r.calls]
  /\ UNCHANGED <<agent, env>>

TranslateNode ==
  /\ agent = "my_agent"
  /\ \E resp \in TranslateResponses, attrs \in BOOLEAN :
       LET r == translate_node(State, attrs, env, resp)
       IN  /\ steps' = r.state.steps
           /\ messages' = r.state.messages
           /\ translations' = r.state.translations
           /\ input' = r.state.input
           /\ last' = [node |-> "translate", pre |-> State, resp |-> resp,
                       outcome |-> r.outcome, calls |-> r.calls,
                       tool_choice |-> r.tool_choice, sent |-> r.sent,
                       new_message |-> r.new_message]
  /\ UNCHANGED <<agent, env>>

Next == ExtractNode \/ TranslateNode

Spec == Init /\ [][Next]_vars

\* ================================================================ claims
\* ---- vocabulary of the claims, stated without the node's own helpers
PendingSearch(ss) ==
  {i \in 1..Len(ss) :
     /\ ss[i].status = "pending"
     /\ "type" \in DOMAIN ss[i]
     /\ ss[i].type = "search"}

Pending(ss) == {i \in 1..Len(ss) : ss[i].status = "pending"}

Earliest(ss) == CHOOSE i \in Pending(ss) : \A k \in Pending(ss) : i <= k

Entries(log) == {log[k] : k \in 1..Len(log)}

LogOf(step) == IF "updates" \in DOMAIN step THEN step.updates ELSE <<>>

LastIsHuman(msgs) == msgs # <<>> /\ msgs[Len(msgs)].role = "human"

CarriesToolCall(resp) ==
  /\ resp.kind = "ok"
  /\ "tool_calls" \in DOMAIN resp.message
  /\ Len(resp.message.tool_calls) > 0

CarriesFullPayload(resp) ==
  /\ CarriesToolCall(resp)
  /\ "args" \in DOMAIN resp.message.tool_calls[1]
  /\ DOMAIN resp.message.tool_calls[1].args = Fields

Unsupported(e) ==
  /\ e.set
  /\ Lower(e.value) \notin {<<"o","p","e","n","a","i">>,
                            <<"a","n","t","h","r","o","p","i","c">>}

Extracted == last.node = "extract"

TranslatedNow == last.node = "translate"

\* C1: when the step list handed in holds no pending search step, the
\* summarizer ends with an invalid-state error, calls no model and leaves
\* every step as it was.
C1_NoPendingSearchFails ==
  (Extracted /\ PendingSearch(last.pre.steps) = {}) =>
    /\ last.outcome \in {NoPendingError, NotSearchError}
    /\ last.calls = 0
    /\ steps = last.pre.steps

C1_Witness ==
  /\ Extracted
  /\ PendingSearch(last.pre.steps) = {}
  /\ Pending(last.pre.steps) # {}
  /\ last.outcome = NotSearchError

\* C2: with exactly one pending search step handed in, once the model call
\* has returned that step is complete and its result is non-empty.
C2_CompleteNonEmpty ==
  (/\ Extracted
   /\ Cardinality(PendingSearch(last.pre.steps)) = 1
   /\ last.calls = 1
   /\ last.resp.kind = "ok") =>
    \A i \in PendingSearch(last.pre.steps) :
      /\ steps[i].status = "complete"
      /\ "result" \in DOMAIN steps[i]
      /\ steps[i].result # None
      /\ steps[i].result # <<>>

\* C3: after a successful summarization, the first step still pending has
\* the "starting" entry in its log and keeps the entries it held; when no
\* step is pending any more, only the summarized step has changed.
C3_NextGainsStarting ==
  (Extracted /\ last.outcome = Ok) =>
    LET i == Earliest(last.pre.steps)
    IN  IF Pending(steps) # {}
          THEN LET j == Earliest(steps)
               IN  /\ "Searching the web..." \in Entries(LogOf(steps[j]))
                   /\ Entries(LogOf(last.pre.steps[j])) \subseteq Entries(LogOf(steps[j]))
          ELSE \A k \in 1..Len(steps) : k # i => steps[k] = last.pre.steps[k]

\* C4 as stated: wherever the tool is bound, the tool call is forced when the last message handed in
\* is human-authored and optional otherwise.
C4_ForcedAfterHuman ==
  (TranslatedNow /\ last.tool_choice # Unbound) =>
    last.tool_choice = (IF LastIsHuman(last.pre.messages) THEN Forced ELSE Optional)

\* C4 as amended: wherever the tool is bound, the tool call is optional when the last message handed
\* in is human-authored, and forced otherwise (last message not
\* human-authored, or empty history).
C4_OptionalAfterHuman ==
  (TranslatedNow /\ last.tool_choice # Unbound) =>
    last.tool_choice = (IF LastIsHuman(last.pre.messages) THEN Optional ELSE Forced)

C4_Witness ==
  /\ TranslatedNow
  /\ last.outcome = Ok
  /\ LastIsHuman(last.pre.messages)
  /\ last.tool_choice = Optional

\* C5: when the response's tool call carries the three translation fields,
\* translations holds exactly those three values and input is the empty
\* text, whatever both held before.
C5_PayloadStored ==
  (TranslatedNow /\ last.outcome = Ok /\ CarriesFullPayload(last.resp)) =>
    /\ DOMAIN translations = Fields
    /\ \A f \in Fields : translations[f] = last.resp.message.tool_calls[1].args[f]
    /\ input = <<>>

C5_Witness ==
  /\ TranslatedNow
  /\ last.outcome = Ok
  /\ CarriesFullPayload(last.resp)
  /\ last.pre.translations = OldTranslations
  /\ last.pre.input # <<>>

\* C6: when the response carries no tool call (no tool_calls, or an empty
\* list), the node's messages are exactly the synthesized request followed
\* by the raw response, and translations is as before the invocation.
C6_NoPayloadMessages ==
  (TranslatedNow /\ last.outcome = Ok /\ ~CarriesToolCall(last.resp)) =>
    /\ Len(messages) = 2
    /\ messages[1] = [role |-> "human", content |-> translation_prompt(last.pre.input)]
    /\ messages[2] = last.resp.message
    /\ translations = last.pre.translations

C6_Witness ==
  /\ TranslatedNow
  /\ last.outcome = Ok
  /\ "tool_calls" \in DOMAIN last.resp.message
  /\ last.resp.message.tool_calls = <<>>
  /\ last.pre.translations = OldTranslations
  /\ Len(last.pre.messages) = MaxMsgs

\* C7: with an unsupported provider selector (after lower-casing; unset
\* counts as "openai") the translator fails with the configuration error
\* before any model call and with the state unchanged; with a supported
\* one it does not fail so.
C7_UnsupportedProviderFails ==
  TranslatedNow =>
    IF Unsupported(env)
      THEN /\ last.outcome = ConfigError
           /\ last.calls = 0
           /\ State = last.pre
      ELSE last.outcome # ConfigError

C7_Witness ==
  /\ TranslatedNow
  /\ env.set
  /\ env.value = <<"a","z","u","r","e">>
  /\ last.outcome = ConfigError
  /\ last.pre.messages # <<>>

\* C8: in both nodes, when the model call fails the invocation ends with
\* that failure after exactly one call and the state is as handed in.
C8_FailureLeavesState ==
  (last.node # "none" /\ last.resp.kind = "fail" /\ last.calls > 0) =>
    /\ last.outcome = ModelError
    /\ last.calls = 1
    /\ State = last.pre

C8_Witness ==
  /\ Extracted
  /\ last.outcome = ModelError
  /\ Len(steps) > 1

\* C9: after a translator invocation whose response carries a tool call,
\* either translations holds all three fields or translations and input
\* are as before the invocation.
C9_TranslationsAtomic ==
  (TranslatedNow /\ last.outcome = Ok /\ CarriesToolCall(last.resp)) =>
    \/ DOMAIN translations = Fields
    \/ translations = last.pre.translations /\ input = last.pre.input

\* C10: on a step list whose pending steps are all search steps, an
\* invocation whose model call succeeds completes exactly the earliest
\* pending step and lowers the number of pending steps by one; a complete
\* step is never modified; with no pending step left the invocation fails
\* with the invalid-state error.
C10_OneStepPerInvocation ==
  [][(agent = "ai_researcher" /\ Pending(steps) = PendingSearch(steps)) =>
       /\ Len(steps') = Len(steps)
       /\ \A j \in 1..Len(steps) :
            steps[j].status = "complete" => steps'[j] = steps[j]
       /\ (Pending(steps) # {} /\ messages # <<>> /\ last'.resp.kind = "ok")
            => last'.outcome = Ok
       /\ last'.outcome = Ok =>
            /\ steps'[Earliest(steps)].status = "complete"
            /\ \A j \in 1..Len(steps) :
                 j # Earliest(steps) => steps'[j].status = steps[j].status
            /\ Cardinality(Pending(steps')) = Cardinality(Pending(steps)) - 1
       /\ Pending(steps) = {} =>
            /\ last'.outcome = NoPendingError
            /\ steps' = steps
    ]_vars

C10_Witness ==
  /\ Extracted
  /\ last.outcome = NoPendingError
  /\ Cardinality({i \in 1..Len(steps) :
                    /\ steps[i].status = "complete"
                    /\ steps[i].result = <<"s","u","m">>}) = MaxSteps

====
